---- MODULE Spec2Model ----
(***************************************************************************)
(* MnemosyneRAG (mnemosyneRAG.ipynb): the two-level cache in front of the  *)
(* retrieval-and-generation pipeline.                                      *)
(*                                                                         *)
(*   embedding_cache   EmbeddingCache: insertion-ordered dict under a lock *)
(*   cache_collection  the response corpus (ChromaDB collection)           *)
(*   thread_pool       ThreadPoolExecutor(max_workers=4) running           *)
(*                     cache_response_background work items                *)
(*   main              the caller's thread: process_query / check_cache /  *)
(*                     clear_cache (coroutines that never yield, so they   *)
(*                     run one at a time on the event loop)                *)
(*                                                                         *)
(* Distances are counted in hundredths: the literal 0.1 of check_cache is  *)
(* Threshold == 10.                                                        *)
(***************************************************************************)
EXTENDS Integers, Sequences, FiniteSets, TLC

VARIABLES
    embedding_cache,   \* EmbeddingCache.cache, the items in insertion order
    max_size,          \* EmbeddingCache.max_size
    lock,              \* EmbeddingCache._lock: its holder
    callers,           \* the threads that call EmbeddingCache.get / .set directly
    used,              \* the keys in the table called directly, least recently
                       \* used first (a history the program does not keep)
    retry,             \* one get_embedding invocation under @retry, by attempts
    cache_collection,  \* the entries of the query_cache collection
    thread_pool,       \* the work items submitted to thread_pool, oldest first
    main,              \* the caller's coroutine: its position and locals
    nq,                \* process_query calls so far
    faults,            \* failed external calls so far
    clears,            \* clear_cache calls so far
    embedded           \* the texts the embedding provider has embedded

vars == <<embedding_cache, max_size, cache_collection, thread_pool, main, nq, faults,
          clears, embedded, lock, callers, used, retry>>

\* the state of the threads that call EmbeddingCache.get and .set directly
api == <<max_size, lock, callers, used, retry>>

\* the state of the pipeline around the EmbeddingCache
pipeline == <<cache_collection, thread_pool, main, nq, faults, clears, embedded>>

(***************************************************************************)
(* Bounds of the model.                                                    *)
(***************************************************************************)
\* process_query invocations in one behaviour
MaxQueries == 2
\* failures of external calls (providers, stores) in one behaviour
MaxFaults == 1
\* clear_cache invocations in one behaviour
MaxClears == 1
\* embedding_cache = EmbeddingCache(): the max_size of the global instance
MaxSize == 1
\* EmbeddingCache(max_size=N) called directly: the largest N
CacheN == 2
\* work items handed to the pool alone in one behaviour
MaxTasks == 5

(***************************************************************************)
(* Program constants.                                                      *)
(***************************************************************************)
\* ThreadPoolExecutor(max_workers=4)
max_workers == 4
\* stop_after_attempt(6)
MaxAttempts == 6
\* results["distances"][0][0] > 0.1, in hundredths
Threshold == 10

(***************************************************************************)
(* Inputs: query texts, their digests and embeddings, knowledge-base       *)
(* results, answers of the generation provider.                            *)
(***************************************************************************)
Texts == {"q1", "q2"}

\* hashlib.md5(query.encode()).hexdigest(): a digest, distinct for distinct texts
md5(text) ==
    CASE text = "q1" -> "5e1c"
      [] text = "q2" -> "a07f"
      [] OTHER       -> "c3d9"

\* the vector of text-embedding-3-small, as a position on a line
\* (|q1 - q2| = Threshold, |q2 - q0| = Threshold + 1)
Embedding(text) ==
    CASE text = "q1" -> 0
      [] text = "q2" -> 10
      [] OTHER       -> 21

\* Optional[List[float]]: no embedding
NoEmbedding == -1

Abs(x) == IF x < 0 THEN -x ELSE x

\* the distance the store reports between two vectors
Distance(a, b) == Abs(a - b)

Answers == {"a1", "a2"}

\* the answers the n-th call of process_query can get: answer texts are
\* interchangeable, so the first one generated is named "a1"
AnswersOf(n) == IF n = 1 THEN {"a1"} ELSE Answers

\* kb_collection.query(query_texts=[query], n_results=1): one group of at most
\* one document with its metadata
KbEmpty == [documents |-> << <<>> >>, metadatas |-> << <<>> >>]
KbDoc1  == [documents |-> << <<"d1">> >>,
            metadatas |-> << <<[number |-> 1, title |-> "t1"]>> >>]
KbNoNum == [documents |-> << <<"d2">> >>, metadatas |-> << <<[title |-> "t"]>> >>]
KbResults == {KbEmpty, KbDoc1, KbNoNum}

(***************************************************************************)
(* CacheResponse and its persisted form.                                   *)
(***************************************************************************)
\* Optional[CacheResponse]: None
None == [none |-> TRUE]

CacheResponse(response, documents, metadata, links) ==
    [response |-> response, documents |-> documents, metadata |-> metadata,
     links |-> links]

\* f"https://example.link/{meta['number']}"
Link(meta) == "https://example.link/" \o ToString(meta.number)

\* [... for meta in kb_results["metadatas"][0]]
Links(metas) == [i \in 1..Len(metas) |-> Link(metas[i])]

\* meta['number'] raises KeyError when the key is missing
HasNumber(metas) == \A i \in 1..Len(metas) : "number" \in DOMAIN metas[i]

(***************************************************************************)
(* json.dumps / json.loads.  A JSON text is the sequence of its tokens:    *)
(* json.dumps writes a list as [ item , item ], a dict as                  *)
(* { "key" : value , ... }, a str between quotes and an int by its digits; *)
(* json.loads reads the text back, token by token, into lists, dicts, strs *)
(* and ints, and raises on a text that is not JSON.                        *)
(***************************************************************************)
\* mutant: the items are written without the comma between them
RECURSIVE JoinNoComma(_)
JoinNoComma(parts) ==
    IF parts = <<>> THEN <<>>
    ELSE IF Len(parts) = 1 THEN parts[1]
    ELSE parts[1] \o JoinNoComma(Tail(parts))

\* items separated by commas
RECURSIVE Join(_)
Join(parts) ==
    IF parts = <<>> THEN <<>>
    ELSE IF Len(parts) = 1 THEN parts[1]
    ELSE parts[1] \o <<",">> \o Join(Tail(parts))

\* a str is written between quotes, an int by its digits
Quote(s) == "\"" \o s \o "\""
DumpsStr(s) == <<Quote(s)>>
DumpsInt(n) == <<ToString(n)>>
DumpsList(parts) == <<"[">> \o Join(parts) \o <<"]">>

\* the keys of a dict, in the order the dict holds them
KeySeq(d) ==
    CHOOSE s \in [1..Cardinality(DOMAIN d) -> DOMAIN d] :
        \A i, j \in DOMAIN s : i # j => s[i] # s[j]

\* the metadata fields whose values are ints; the others hold strs
IntFields == {"number"}

DumpsDict(d) ==
    LET keys == KeySeq(d)
        member(k) == <<Quote(k), ":">>
                       \o (IF k \in IntFields THEN DumpsInt(d[k]) ELSE DumpsStr(d[k])) IN
      <<"{">> \o Join([i \in 1..Len(keys) |-> member(keys[i])]) \o <<"}">>

\* json.dumps(response.documents), of a List[List[str]]
DumpsDocuments(documents) ==
    DumpsList([g \in 1..Len(documents) |->
                 DumpsList([i \in 1..Len(documents[g]) |-> DumpsStr(documents[g][i])])])

\* json.dumps(response.metadata), of a List[List[Dict]]
DumpsMetadata(metadata) ==
    DumpsList([g \in 1..Len(metadata) |->
                 DumpsList([i \in 1..Len(metadata[g]) |-> DumpsDict(metadata[g][i])])])

\* json.dumps(response.links), of a List[str]
DumpsLinks(links) == DumpsList([i \in 1..Len(links) |-> DumpsStr(links[i])])

\* the ints and the strs that the documents, the metadata and the links hold
Numbers == 0..9
Strings ==
    {"d1", "d2", "number", "title", "t", "t1"}
        \cup {"https://example.link/" \o ToString(n) : n \in Numbers}

\* the texts of the int tokens and of the str tokens
NumTokens == {ToString(n) : n \in Numbers}
StrTokens == {Quote(s) : s \in Strings}

\* int(token), and the str between the quotes of a token
ParseInt(token) == CHOOSE n \in Numbers : ToString(n) = token
Unquote(token) == CHOOSE s \in Strings : Quote(s) = token

\* what the parser reports: a value and the place of the next token, or a
\* failure
Parsed(value, next) == [ok |-> TRUE, value |-> value, next |-> next]
ParseError == [ok |-> FALSE, value |-> <<>>, next |-> 0]

\* the kind of the token at place i
KindAt(toks, i) ==
    IF i \notin 1..Len(toks) THEN "end"
    ELSE IF toks[i] \in {"[", "]", "{", "}", ",", ":"} THEN toks[i]
    ELSE IF toks[i] \in NumTokens THEN "num"
    ELSE IF toks[i] \in StrTokens THEN "str"
    ELSE "bad"

RECURSIVE ParseValue(_, _), ParseItems(_, _, _), ParseMembers(_, _, _)

\* the value that begins at token i
ParseValue(toks, i) ==
    LET kind == KindAt(toks, i) IN
      CASE kind = "str" -> Parsed(Unquote(toks[i]), i + 1)
        [] kind = "num" -> Parsed(ParseInt(toks[i]), i + 1)
        [] kind = "["   ->
              IF KindAt(toks, i + 1) = "]" THEN Parsed(<<>>, i + 2)
              ELSE ParseItems(toks, i + 1, <<>>)
        [] kind = "{"   ->
              IF KindAt(toks, i + 1) = "}" THEN Parsed(<<>>, i + 2)
              ELSE ParseMembers(toks, i + 1, <<>>)
        [] OTHER -> ParseError

\* the items of a list from token i on, `items` being those read so far
ParseItems(toks, i, items) ==
    LET item == ParseValue(toks, i)
        kind == KindAt(toks, item.next) IN
      IF ~item.ok THEN ParseError
      ELSE CASE kind = "," -> ParseItems(toks, item.next + 1, Append(items, item.value))
             [] kind = "]" -> Parsed(Append(items, item.value), item.next + 1)
             [] OTHER -> ParseError

\* the members of a dict from token i on, `members` being those read so far
ParseMembers(toks, i, members) ==
    IF KindAt(toks, i) # "str" \/ KindAt(toks, i + 1) # ":" THEN ParseError
    ELSE LET key == Unquote(toks[i])
             val == ParseValue(toks, i + 2)
             kind == KindAt(toks, val.next)
             dict == [k \in DOMAIN members \cup {key} |->
                         IF k = key THEN val.value ELSE members[k]] IN
           IF ~val.ok THEN ParseError
           ELSE CASE kind = "," -> ParseMembers(toks, val.next + 1, dict)
                  [] kind = "}" -> Parsed(dict, val.next + 1)
                  [] OTHER -> ParseError

\* json.loads(text) does not raise
JsonValid(toks) ==
    LET r == ParseValue(toks, 1) IN r.ok /\ r.next = Len(toks) + 1

\* json.loads(text)
JsonLoads(toks) == ParseValue(toks, 1).value

\* metadatas=[{...}] of cache_collection.add
Payload(r) ==
    [response  |-> r.response,
     documents |-> DumpsDocuments(r.documents),
     metadata  |-> DumpsMetadata(r.metadata),
     links     |-> DumpsLinks(r.links)]

\* the try-body of check_cache after the threshold test: TRUE when no
\* statement of it raises
PayloadDecodes(p) ==
    JsonValid(p.documents) /\ JsonValid(p.metadata) /\ JsonValid(p.links)

\* CacheResponse(response=metadata["response"], documents=json.loads(...), ...)
DecodePayload(p) ==
    CacheResponse(p.response, JsonLoads(p.documents), JsonLoads(p.metadata),
                  JsonLoads(p.links))

\* an entry of the response corpus
Entry(id, query, embedding, payload) ==
    [id |-> id, document |-> query, embedding |-> embedding, metadata |-> payload]

\* an entry written to the persistent collection by another writer, whose
\* payload is not JSON
ForeignPayload ==
    [response  |-> "x",
     documents |-> <<"d0">>,
     metadata  |-> <<"m0">>,
     links     |-> <<"l0">>]
ForeignEntry == Entry(101, "other", -10, ForeignPayload)

\* an entry persisted by an earlier run of the program, for the text "q0"
OldResponse ==
    CacheResponse("a0", KbDoc1.documents, KbDoc1.metadatas, Links(KbDoc1.metadatas[1]))
OldEntry == Entry(100, "q0", Embedding("q0"), Payload(OldResponse))

(***************************************************************************)
(* EmbeddingCache: the dict as the sequence of its items in insertion      *)
(* order. get and set run under self._lock, each as one step.              *)
(***************************************************************************)
Keys(cache) == {cache[i].key : i \in 1..Len(cache)}

IndexOf(cache, key) == CHOOSE i \in 1..Len(cache) : cache[i].key = key

\* mutant: the table is read with a key it was never filled with
CacheGetOtherKey(cache, key) == NoEmbedding

\* self.cache.get(key)
CacheGet(cache, key) ==
    IF key \in Keys(cache) THEN cache[IndexOf(cache, key)].value ELSE NoEmbedding

\* mutant: the newest entry is the one evicted
PopLast(cache) == SubSeq(cache, 1, Len(cache) - 1)

\* self.cache.pop(next(iter(self.cache)))
PopFirst(cache) == Tail(cache)

\* self.cache[key] = value: an existing key keeps its place
Assign(cache, key, value) ==
    IF key \in Keys(cache)
    THEN [cache EXCEPT ![IndexOf(cache, key)].value = value]
    ELSE Append(cache, [key |-> key, value |-> value])

\* EmbeddingCache.set
CacheSet(cache, size, key, value) ==
    Assign(IF Len(cache) >= size THEN PopFirst(cache) ELSE cache, key, value)

(***************************************************************************)
(* get_embedding under @retry(stop=stop_after_attempt(6)): `failures` is   *)
(* the number of provider calls that fail before one succeeds.             *)
(***************************************************************************)
GetEmbedding(text, failures) ==
    IF failures < MaxAttempts
    THEN [ok |-> TRUE, value |-> Embedding(text), calls |-> failures + 1]
    ELSE [ok |-> FALSE, value |-> NoEmbedding, calls |-> MaxAttempts]

\* wait_random_exponential(min=1, max=20), in seconds
WaitMin == 1
WaitMax == 20

RECURSIVE Pow2(_)
Pow2(n) == IF n = 0 THEN 1 ELSE 2 * Pow2(n - 1)

\* the longest sleep after the failed attempt number `attempt`
WaitHigh(attempt) ==
    LET e == Pow2(attempt - 1)
        capped == IF e < WaitMax THEN e ELSE WaitMax IN
      IF capped < WaitMin THEN WaitMin ELSE capped

\* mutant: the stop test lets one attempt more through
StopAfterAttemptLate(attempt) == attempt > MaxAttempts

\* stop=stop_after_attempt(6)
StopAfterAttempt(attempt) == attempt >= MaxAttempts

\* get_embedding is not being called
NotCalled ==
    [pc |-> "idle", text |-> "none", attempt |-> 0, calls |-> 0, delay |-> 0,
     value |-> NoEmbedding]

(***************************************************************************)
(* The response store: cache_collection.query(query_embeddings=[e],        *)
(* n_results=1) reports one nearest entry; ties are the store's choice.    *)
(***************************************************************************)
Nearest(corpus, e) ==
    {c \in corpus : \A d \in corpus : Distance(c.embedding, e) <= Distance(d.embedding, e)}

\* str(uuid.uuid4()) of the i-th work item: fresh
Uuid4(i) == i

\* clear_cache(cache_id: Optional[str] = None): None, and the empty string
NoId == -1
EmptyId == 0

(***************************************************************************)
(* The caller's thread.                                                    *)
(***************************************************************************)
Idle ==
    [pc |-> "idle", query |-> "none", embedding |-> NoEmbedding, kb |-> KbEmpty,
     src |-> "none", result |-> None, cc |-> "none", cand |-> -1, dist |-> -1,
     outcome |-> "none", error |-> "none", kbCalls |-> 0, genCalls |-> 0,
     submits |-> 0, seen |-> {}, ids |-> {}, cache_id |-> NoId]

\* the answers already persisted for the identical text
Persisted(corpus, q) == {c.metadata.response : c \in {d \in corpus : d.document = q}}

\* a fault may be injected while the budget lasts
CanFail == faults < MaxFaults

\* process_query(query) is called
ProcessQuery(q) ==
    /\ main.pc = "idle"
    /\ nq < MaxQueries
    /\ nq' = nq + 1
    /\ main' = [Idle EXCEPT !.pc = "cc_get", !.query = q, !.outcome = "running",
                            !.seen = Persisted(cache_collection, q)]
    /\ UNCHANGED <<embedding_cache, cache_collection, thread_pool, faults, clears, embedded, api>>

\* check_cache: embedding = embedding_cache.get(cache_key); if not embedding
CheckCacheGet ==
    /\ main.pc = "cc_get"
    /\ LET e == CacheGet(embedding_cache, md5(main.query)) IN
         main' = IF e # NoEmbedding
                 THEN [main EXCEPT !.pc = "cc_query", !.embedding = e, !.src = "cache"]
                 ELSE [main EXCEPT !.pc = "cc_embed"]
    /\ UNCHANGED <<embedding_cache, cache_collection, thread_pool, nq, faults, clears, embedded, api>>

\* mutant: check_cache lets the exception through to process_query
CheckCacheExceptRaises(m, cause) ==
    [m EXCEPT !.pc = "done", !.cc = cause, !.outcome = "failed", !.error = cause]

\* what check_cache does when its try-body raises: print, return None;
\* process_query then goes on after `if cached_response`
CheckCacheExcept(m, cause) ==
    [m EXCEPT !.pc = "retrieve", !.cc = cause, !.result = None]

\* check_cache: embedding = get_embedding(query)
CheckCacheEmbed ==
    /\ main.pc = "cc_embed"
    /\ \E failures \in 0..MaxAttempts :
         LET r == GetEmbedding(main.query, failures) IN
           IF r.ok
           THEN /\ main' = [main EXCEPT !.pc = "cc_set", !.embedding = r.value,
                                         !.src = "provider"]
                /\ embedded' = embedded \cup {main.query}
                /\ UNCHANGED faults
           ELSE /\ CanFail
                /\ faults' = faults + 1
                /\ main' = CheckCacheExcept(main, "embed_failed")
                /\ UNCHANGED embedded
    /\ UNCHANGED <<embedding_cache, cache_collection, thread_pool, nq, clears, api>>

\* check_cache: embedding_cache.set(cache_key, embedding)
CheckCacheSet ==
    /\ main.pc = "cc_set"
    /\ embedding_cache' = CacheSet(embedding_cache, max_size, md5(main.query),
                                   main.embedding)
    /\ main' = [main EXCEPT !.pc = "cc_query"]
    /\ UNCHANGED <<cache_collection, thread_pool, nq, faults, clears, embedded, api>>

\* mutants of the threshold test: a similarity read as a distance, and a
\* boundary that is not inclusive
WithinThresholdInverted(dist) == dist > Threshold
WithinThresholdStrict(dist) == dist < Threshold

\* the threshold test of check_cache: results["distances"][0][0] > 0.1 is a miss
WithinThreshold(dist) == ~(dist > Threshold)

\* mutant: process_query does not return on a hit
CheckCacheResultGoesOn(m, c) ==
    LET d == Distance(c.embedding, m.embedding)
        seen == [m EXCEPT !.cand = c.id, !.dist = d] IN
      IF ~WithinThreshold(d)
      THEN [seen EXCEPT !.pc = "retrieve", !.cc = "miss"]
      ELSE IF ~PayloadDecodes(c.metadata)
      THEN CheckCacheExcept(seen, "malformed")
      ELSE [seen EXCEPT !.pc = "retrieve", !.cc = "hit",
                        !.result = DecodePayload(c.metadata)]

\* check_cache after the store answered with candidate c, and the
\* `if cached_response: return cached_response` of process_query
CheckCacheResult(m, c) ==
    LET d == Distance(c.embedding, m.embedding)
        seen == [m EXCEPT !.cand = c.id, !.dist = d] IN
      IF ~WithinThreshold(d)
      THEN [seen EXCEPT !.pc = "retrieve", !.cc = "miss"]
      ELSE IF ~PayloadDecodes(c.metadata)
      THEN CheckCacheExcept(seen, "malformed")
      ELSE [seen EXCEPT !.pc = "done", !.cc = "hit", !.outcome = "hit",
                        !.result = DecodePayload(c.metadata)]

\* check_cache: results = cache_collection.query(...) and what follows it
CheckCacheQuery ==
    /\ main.pc = "cc_query"
    /\ \/ /\ CanFail
          /\ faults' = faults + 1
          /\ main' = CheckCacheExcept(main, "store_failed")
       \/ /\ cache_collection = {}
          /\ main' = [main EXCEPT !.pc = "retrieve", !.cc = "no_candidate"]
          /\ UNCHANGED faults
       \/ /\ \E c \in Nearest(cache_collection, main.embedding) :
               main' = CheckCacheResult(main, c)
          /\ UNCHANGED faults
    /\ UNCHANGED <<embedding_cache, cache_collection, thread_pool, nq, clears, embedded, api>>

\* mutant: the pipeline tries the failed stage again
RaiseRetries(m, cause) == [m EXCEPT !.pc = "retrieve"]

\* except Exception as e: raise Exception(f"Failed to process question: ...")
Raise(m, cause) == [m EXCEPT !.pc = "done", !.outcome = "failed", !.error = cause]

\* mutant: process_query goes on without documents
RetrievedAnyway(m, r) == [m EXCEPT !.pc = "generate", !.kb = r]

\* process_query after kb_collection.query returned r
Retrieved(m, r) ==
    IF r.documents = <<>> \/ r.documents[1] = <<>>
    THEN Raise(m, "no_documents")
    ELSE [m EXCEPT !.pc = "generate", !.kb = r]

\* process_query: kb_results = kb_collection.query(...)
Retrieve ==
    /\ main.pc = "retrieve"
    /\ \/ /\ CanFail
          /\ faults' = faults + 1
          /\ main' = Raise([main EXCEPT !.kbCalls = @ + 1], "retrieve_failed")
       \/ /\ \E r \in KbResults :
               main' = Retrieved([main EXCEPT !.kbCalls = @ + 1], r)
          /\ UNCHANGED faults
    /\ UNCHANGED <<embedding_cache, cache_collection, thread_pool, nq, clears, embedded, api>>

\* mutant: the answer is returned without being handed to the pool
GeneratedNotSubmitted(m, answer) ==
    IF HasNumber(m.kb.metadatas[1])
    THEN [m EXCEPT !.pc = "return",
                   !.result = CacheResponse(answer, m.kb.documents, m.kb.metadatas,
                                            Links(m.kb.metadatas[1]))]
    ELSE Raise(m, "generate_failed")

\* process_query after the generation provider returned `answer`
Generated(m, answer) ==
    IF HasNumber(m.kb.metadatas[1])
    THEN [m EXCEPT !.pc = "submit",
                   !.result = CacheResponse(answer, m.kb.documents, m.kb.metadatas,
                                            Links(m.kb.metadatas[1]))]
    ELSE Raise(m, "generate_failed")

\* process_query: response = openai_client.chat.completions.create(...)
Generate ==
    /\ main.pc = "generate"
    /\ \/ /\ CanFail
          /\ faults' = faults + 1
          /\ main' = Raise([main EXCEPT !.genCalls = @ + 1], "generate_failed")
       \/ /\ \E a \in AnswersOf(nq) :
               main' = Generated([main EXCEPT !.genCalls = @ + 1], a)
          /\ UNCHANGED faults
    /\ UNCHANGED <<embedding_cache, cache_collection, thread_pool, nq, clears, embedded, api>>

\* the work item run_in_executor hands to the pool
WorkItem(query, response) ==
    [query |-> query, response |-> response, st |-> "queued",
     embedding |-> NoEmbedding, src |-> "none", cause |-> "none"]

\* process_query: loop.run_in_executor(thread_pool, cache_response_background, ...)
Submit ==
    /\ main.pc = "submit"
    /\ thread_pool' = Append(thread_pool, WorkItem(main.query, main.result))
    /\ main' = [main EXCEPT !.pc = "return", !.submits = @ + 1]
    /\ UNCHANGED <<embedding_cache, cache_collection, nq, faults, clears, embedded, api>>

\* mutant: process_query awaits the future of its work item before it returns
ReturnResultAfterTask ==
    /\ main.pc = "return"
    /\ thread_pool[Len(thread_pool)].st \in {"done", "failed"}
    /\ main' = [main EXCEPT !.pc = "done", !.outcome = "answered"]
    /\ UNCHANGED <<embedding_cache, cache_collection, thread_pool, nq, faults, clears, embedded, api>>

\* process_query: return result
ReturnResult ==
    /\ main.pc = "return"
    /\ main' = [main EXCEPT !.pc = "done", !.outcome = "answered"]
    /\ UNCHANGED <<embedding_cache, cache_collection, thread_pool, nq, faults, clears, embedded, api>>

\* result = await process_query(query): the caller has the answer or the
\* exception, and the coroutine is over
Await ==
    /\ main.pc = "done"
    /\ main' = Idle
    /\ UNCHANGED <<embedding_cache, cache_collection, thread_pool, nq, faults, clears, embedded, api>>

(***************************************************************************)
(* clear_cache                                                             *)
(***************************************************************************)
\* `if cache_id:` is the truth value of the argument
Truthy(cache_id) == cache_id \notin {NoId, EmptyId}

\* cache_collection.delete(ids=ids)
DeleteIds(corpus, ids) == {c \in corpus : c.id \notin ids}

\* clear_cache(cache_id) is called
ClearCache(cache_id) ==
    /\ main.pc = "idle"
    /\ clears < MaxClears
    /\ clears' = clears + 1
    /\ main' = [Idle EXCEPT !.pc = "clear", !.cache_id = cache_id]
    /\ UNCHANGED <<embedding_cache, cache_collection, thread_pool, nq, faults, embedded, api>>

\* if cache_id: cache_collection.delete(ids=[cache_id]); print; return
\* (a delete that raises is printed by the except clause)
ClearCacheId ==
    /\ main.pc = "clear"
    /\ Truthy(main.cache_id)
    /\ \/ /\ cache_collection' = DeleteIds(cache_collection, {main.cache_id})
          /\ UNCHANGED faults
       \/ /\ CanFail
          /\ faults' = faults + 1
          /\ UNCHANGED cache_collection
    /\ main' = Idle
    /\ UNCHANGED <<embedding_cache, thread_pool, nq, clears, embedded, api>>

\* all_ids = cache_collection.get()["ids"]; `if all_ids:` ends the call when
\* there is none
ClearCacheList ==
    /\ main.pc = "clear"
    /\ ~Truthy(main.cache_id)
    /\ \/ /\ main' = IF cache_collection = {} THEN Idle
                      ELSE [main EXCEPT !.pc = "clear_delete",
                                        !.ids = {c.id : c \in cache_collection}]
          /\ UNCHANGED faults
       \/ /\ CanFail
          /\ faults' = faults + 1
          /\ main' = Idle
    /\ UNCHANGED <<embedding_cache, cache_collection, thread_pool, nq, clears, embedded, api>>

\* cache_collection.delete(ids=all_ids); print
ClearCacheDelete ==
    /\ main.pc = "clear_delete"
    /\ \/ /\ cache_collection' = DeleteIds(cache_collection, main.ids)
          /\ UNCHANGED faults
       \/ /\ CanFail
          /\ faults' = faults + 1
          /\ UNCHANGED cache_collection
    /\ main' = Idle
    /\ UNCHANGED <<embedding_cache, thread_pool, nq, clears, embedded, api>>

(***************************************************************************)
(* The worker threads: cache_response_background(query, response).         *)
(***************************************************************************)
Running(pool) == {i \in 1..Len(pool) : pool[i].st \in {"get", "embed", "set", "add"}}

\* a worker takes the oldest queued work item
TaskStart(i) ==
    /\ thread_pool[i].st = "queued"
    /\ \A j \in 1..(i - 1) : thread_pool[j].st # "queued"
    /\ Cardinality(Running(thread_pool)) < max_workers
    /\ thread_pool' = [thread_pool EXCEPT ![i].st = "get"]
    /\ UNCHANGED <<embedding_cache, cache_collection, main, nq, faults, clears, embedded, api>>

\* embedding = embedding_cache.get(cache_key); if not embedding
TaskGet(i) ==
    /\ thread_pool[i].st = "get"
    /\ LET e == CacheGet(embedding_cache, md5(thread_pool[i].query)) IN
         thread_pool' = IF e # NoEmbedding
                        THEN [thread_pool EXCEPT ![i].st = "add", ![i].embedding = e,
                                                 ![i].src = "cache"]
                        ELSE [thread_pool EXCEPT ![i].st = "embed"]
    /\ UNCHANGED <<embedding_cache, cache_collection, main, nq, faults, clears, embedded, api>>

\* the worker drops a work item it has run (del work_item): its arguments
\* and locals are gone
Finished(item) ==
    [item EXCEPT !.query = "none", !.response = None, !.embedding = NoEmbedding,
                 !.src = "none"]

\* mutant: a failing work item takes the queued ones with it
TaskExceptCancels(pool, i, cause) ==
    [j \in 1..Len(pool) |->
        IF j = i \/ pool[j].st = "queued"
        THEN [Finished(pool[j]) EXCEPT !.st = "failed", !.cause = cause]
        ELSE pool[j]]

\* mutant: a work item that fails is put back in the queue
TaskExceptRequeues(pool, i, cause) == [pool EXCEPT ![i].st = "queued"]

\* except Exception as e: print(f"Background caching failed: ...")
TaskExcept(pool, i, cause) ==
    [pool EXCEPT ![i] = [Finished(pool[i]) EXCEPT !.st = "failed", !.cause = cause]]

\* embedding = get_embedding(query)
TaskEmbed(i) ==
    /\ thread_pool[i].st = "embed"
    /\ \E failures \in 0..MaxAttempts :
         LET r == GetEmbedding(thread_pool[i].query, failures) IN
           IF r.ok
           THEN /\ thread_pool' = [thread_pool EXCEPT ![i].st = "set",
                                                      ![i].embedding = r.value,
                                                      ![i].src = "provider"]
                /\ embedded' = embedded \cup {thread_pool[i].query}
                /\ UNCHANGED faults
           ELSE /\ CanFail
                /\ faults' = faults + 1
                /\ thread_pool' = TaskExcept(thread_pool, i, "embed_failed")
                /\ UNCHANGED embedded
    /\ UNCHANGED <<embedding_cache, cache_collection, main, nq, clears, api>>

\* embedding_cache.set(cache_key, embedding)
TaskSet(i) ==
    /\ thread_pool[i].st = "set"
    /\ embedding_cache' = CacheSet(embedding_cache, max_size, md5(thread_pool[i].query),
                                   thread_pool[i].embedding)
    /\ thread_pool' = [thread_pool EXCEPT ![i].st = "add"]
    /\ UNCHANGED <<cache_collection, main, nq, faults, clears, embedded, api>>

\* cache_id = str(uuid.uuid4()); cache_collection.add(...)
TaskAdd(i) ==
    /\ thread_pool[i].st = "add"
    /\ \/ /\ CanFail
          /\ faults' = faults + 1
          /\ thread_pool' = TaskExcept(thread_pool, i, "add_failed")
          /\ UNCHANGED cache_collection
       \/ /\ cache_collection' = cache_collection \cup
                {Entry(Uuid4(i), thread_pool[i].query, thread_pool[i].embedding,
                       Payload(thread_pool[i].response))}
          /\ thread_pool' = [thread_pool EXCEPT
                                ![i] = [Finished(thread_pool[i]) EXCEPT !.st = "done"]]
          /\ UNCHANGED faults
    /\ UNCHANGED <<embedding_cache, main, nq, clears, embedded, api>>

(***************************************************************************)
(* EmbeddingCache called directly from several threads: get and set, the   *)
(* statements of their bodies as steps, under `with self._lock`.           *)
(***************************************************************************)
Callers == {1, 2}
CacheKeys == {md5("q1"), md5("q2"), md5("q0")}
CacheValues == {Embedding("q1"), Embedding("q2")}

\* self._lock is free
Free == 0

\* the recency order without `key`, and with `key` as the most recent use
Without(order, key) == SelectSeq(order, LAMBDA k : k # key)
Touch(order, key) == Append(Without(order, key), key)

\* a thread that is in no call
Outside ==
    [pc |-> "out", key |-> "none", value |-> NoEmbedding, full |-> FALSE,
     ret |-> NoEmbedding]

\* embedding_cache.get(key) is called
CallGet(t, key) ==
    /\ callers[t].pc = "out"
    /\ callers' = [callers EXCEPT ![t] = [Outside EXCEPT !.pc = "get_lock", !.key = key]]
    /\ UNCHANGED <<embedding_cache, max_size, lock, used, retry, pipeline>>

\* embedding_cache.set(key, value) is called
CallSet(t, key, value) ==
    /\ callers[t].pc = "out"
    /\ callers' = [callers EXCEPT ![t] = [Outside EXCEPT !.pc = "set_lock", !.key = key,
                                                          !.value = value]]
    /\ UNCHANGED <<embedding_cache, max_size, lock, used, retry, pipeline>>

\* mutant: the body is entered without waiting for the lock
AcquireNoWait(t) ==
    /\ callers[t].pc \in {"get_lock", "set_lock"}
    /\ lock' = t
    /\ callers' = [callers EXCEPT ![t].pc = IF @ = "get_lock" THEN "get_body" ELSE "set_test"]
    /\ UNCHANGED <<embedding_cache, max_size, used, retry, pipeline>>

\* with self._lock: the thread waits until the lock is free and takes it
Acquire(t) ==
    /\ callers[t].pc \in {"get_lock", "set_lock"}
    /\ lock = Free
    /\ lock' = t
    /\ callers' = [callers EXCEPT ![t].pc = IF @ = "get_lock" THEN "get_body" ELSE "set_test"]
    /\ UNCHANGED <<embedding_cache, max_size, used, retry, pipeline>>

\* get: return self.cache.get(key)
GetBody(t) ==
    /\ callers[t].pc = "get_body"
    /\ callers' = [callers EXCEPT ![t].pc = "unlock",
                                  ![t].ret = CacheGet(embedding_cache, callers[t].key)]
    /\ used' = IF callers[t].key \in Keys(embedding_cache)
               THEN Touch(used, callers[t].key) ELSE used
    /\ UNCHANGED <<embedding_cache, max_size, lock, retry, pipeline>>

\* set: if len(self.cache) >= self.max_size: self.cache.pop(next(iter(self.cache)))
SetTest(t) ==
    /\ callers[t].pc = "set_test"
    /\ LET full == Len(embedding_cache) >= max_size IN
         /\ embedding_cache' = IF full THEN PopFirst(embedding_cache) ELSE embedding_cache
         /\ callers' = [callers EXCEPT ![t].pc = "set_assign", ![t].full = full]
         /\ used' = IF full THEN Without(used, embedding_cache[1].key) ELSE used
    /\ UNCHANGED <<max_size, lock, retry, pipeline>>

\* set: self.cache[key] = value
SetAssign(t) ==
    /\ callers[t].pc = "set_assign"
    /\ embedding_cache' = Assign(embedding_cache, callers[t].key, callers[t].value)
    /\ callers' = [callers EXCEPT ![t].pc = "unlock"]
    /\ used' = Touch(used, callers[t].key)
    /\ UNCHANGED <<max_size, lock, retry, pipeline>>

\* the end of the with block: the lock is released and the call returns
Release(t) ==
    /\ callers[t].pc = "unlock"
    /\ lock' = Free
    /\ callers' = [callers EXCEPT ![t] = Outside]
    /\ UNCHANGED <<embedding_cache, max_size, used, retry, pipeline>>

\* between its calls of get and set the thread calls the embedding provider
\* (embedding = get_embedding(query)) or the response store
\* (cache_collection.query / .add)
CallExternal(t) ==
    /\ callers[t].pc = "out"
    /\ callers' = [callers EXCEPT ![t].pc = "external"]
    /\ UNCHANGED <<embedding_cache, max_size, lock, used, retry, pipeline>>

\* the provider or the store has answered
ExternalReturns(t) ==
    /\ callers[t].pc = "external"
    /\ callers' = [callers EXCEPT ![t].pc = "out"]
    /\ UNCHANGED <<embedding_cache, max_size, lock, used, retry, pipeline>>

\* EmbeddingCache(max_size=N)
CacheInit ==
    /\ embedding_cache = <<>>
    /\ max_size \in 1..CacheN
    /\ lock = Free
    /\ callers = [t \in Callers |-> Outside]
    /\ used = <<>>
    /\ retry = NotCalled
    /\ cache_collection = {}
    /\ thread_pool = <<>>
    /\ main = Idle
    /\ nq = 0
    /\ faults = 0
    /\ clears = 0
    /\ embedded = {}

CacheNext ==
    \/ \E t \in Callers : \E key \in CacheKeys : CallGet(t, key)
    \/ \E t \in Callers : \E key \in CacheKeys : \E value \in CacheValues :
          CallSet(t, key, value)
    \/ \E t \in Callers : Acquire(t)
    \/ \E t \in Callers : GetBody(t)
    \/ \E t \in Callers : SetTest(t)
    \/ \E t \in Callers : SetAssign(t)
    \/ \E t \in Callers : Release(t)
    \/ \E t \in Callers : CallExternal(t)
    \/ \E t \in Callers : ExternalReturns(t)

SpecCache == CacheInit /\ [][CacheNext]_vars

(***************************************************************************)
(* One get_embedding invocation under @retry, attempt by attempt: the      *)
(* provider call, the stop test, the sleep before the next attempt.        *)
(***************************************************************************)
RetryTexts == Texts \cup {"q0"}

\* get_embedding(text) is called: the first attempt begins
GetEmbeddingCall(text) ==
    /\ retry.pc = "idle"
    /\ retry' = [NotCalled EXCEPT !.pc = "call", !.text = text, !.attempt = 1]
    /\ UNCHANGED <<embedding_cache, max_size, lock, callers, used, pipeline>>

\* openai_client.embeddings.create(...) returns: the vector is the result
ProviderReturns ==
    /\ retry.pc = "call"
    /\ retry' = [retry EXCEPT !.pc = "returned", !.calls = @ + 1,
                              !.value = Embedding(retry.text)]
    /\ UNCHANGED <<embedding_cache, max_size, lock, callers, used, pipeline>>

\* the provider call raises: the stop test ends the invocation with a
\* failure or a sleep of a random length precedes the next attempt
ProviderRaises ==
    /\ retry.pc = "call"
    /\ IF StopAfterAttempt(retry.attempt)
       THEN retry' = [retry EXCEPT !.pc = "raised", !.calls = @ + 1]
       ELSE \E d \in WaitMin..WaitHigh(retry.attempt) :
               retry' = [retry EXCEPT !.pc = "wait", !.calls = @ + 1, !.delay = d]
    /\ UNCHANGED <<embedding_cache, max_size, lock, callers, used, pipeline>>

\* the sleep is over: the next attempt begins
NextAttempt ==
    /\ retry.pc = "wait"
    /\ retry' = [retry EXCEPT !.pc = "call", !.attempt = @ + 1, !.delay = 0]
    /\ UNCHANGED <<embedding_cache, max_size, lock, callers, used, pipeline>>

\* the caller has the vector or the exception
GetEmbeddingOver ==
    /\ retry.pc \in {"returned", "raised"}
    /\ retry' = NotCalled
    /\ UNCHANGED <<embedding_cache, max_size, lock, callers, used, pipeline>>

RetryInit ==
    /\ embedding_cache = <<>>
    /\ max_size = MaxSize
    /\ lock = Free
    /\ callers = [t \in Callers |-> Outside]
    /\ used = <<>>
    /\ retry = NotCalled
    /\ cache_collection = {}
    /\ thread_pool = <<>>
    /\ main = Idle
    /\ nq = 0
    /\ faults = 0
    /\ clears = 0
    /\ embedded = {}

RetryNext ==
    \/ \E text \in RetryTexts : GetEmbeddingCall(text)
    \/ ProviderReturns
    \/ ProviderRaises
    \/ NextAttempt
    \/ GetEmbeddingOver

\* every provider call ends and every sleep ends
SpecRetry ==
    /\ RetryInit
    /\ [][RetryNext]_vars
    /\ WF_vars(ProviderReturns \/ ProviderRaises)
    /\ WF_vars(NextAttempt)

(***************************************************************************)
(* The pool alone: work items handed to thread_pool, its workers taking    *)
(* them in order.  A worker is always scheduled; the embedding provider    *)
(* and the response store answer when they answer, perhaps never.          *)
(***************************************************************************)
\* loop.run_in_executor(thread_pool, cache_response_background, query, result)
SubmitTask(q) ==
    /\ Len(thread_pool) < MaxTasks
    /\ thread_pool' = Append(thread_pool, WorkItem(q, OldResponse))
    /\ UNCHANGED <<embedding_cache, cache_collection, main, nq, faults, clears, embedded, api>>

PoolInit ==
    /\ embedding_cache = <<>>
    /\ max_size = MaxSize
    /\ lock = Free
    /\ callers = [t \in Callers |-> Outside]
    /\ used = <<>>
    /\ retry = NotCalled
    /\ cache_collection = {}
    /\ thread_pool = <<>>
    /\ main = Idle
    /\ nq = 0
    /\ faults = 0
    /\ clears = 0
    /\ embedded = {}

\* the steps of a worker that wait for nothing outside the process
WorkerLocalStep ==
    \E i \in 1..Len(thread_pool) :
        \/ TaskStart(i)
        \/ TaskGet(i)
        \/ TaskSet(i)

PoolNext ==
    \/ SubmitTask("q1")
    \/ \E i \in 1..Len(thread_pool) : TaskStart(i)
    \/ \E i \in 1..Len(thread_pool) : TaskGet(i)
    \/ \E i \in 1..Len(thread_pool) : TaskEmbed(i)
    \/ \E i \in 1..Len(thread_pool) : TaskSet(i)
    \/ \E i \in 1..Len(thread_pool) : TaskAdd(i)

SpecPool == PoolInit /\ [][PoolNext]_vars /\ WF_vars(WorkerLocalStep)

(***************************************************************************)
(* The specification.                                                      *)
(***************************************************************************)
\* the ids clear_cache is called with: that of the entry persisted by an
\* earlier run and that of the first entry this run writes
ClearIds == {OldEntry.id, Uuid4(1)}

\* the arguments clear_cache is called with: the id of an entry of the
\* corpus, the empty string, or none
ClearArgs == ({c.id : c \in cache_collection} \cap ClearIds) \cup {EmptyId, NoId}

Init ==
    /\ embedding_cache = <<>>
    /\ max_size = MaxSize
    /\ lock = Free
    /\ callers = [t \in Callers |-> Outside]
    /\ used = <<>>
    /\ retry = NotCalled
    /\ cache_collection \in {{}, {OldEntry, ForeignEntry}}
    /\ thread_pool = <<>>
    /\ main = Idle
    /\ nq = 0
    /\ faults = 0
    /\ clears = 0
    /\ embedded = {}

MainStep ==
    \/ CheckCacheGet
    \/ CheckCacheEmbed
    \/ CheckCacheSet
    \/ CheckCacheQuery
    \/ Retrieve
    \/ Generate
    \/ Submit
    \/ ReturnResult

WorkerStep ==
    \E i \in 1..Len(thread_pool) :
        \/ TaskStart(i)
        \/ TaskGet(i)
        \/ TaskEmbed(i)
        \/ TaskSet(i)
        \/ TaskAdd(i)

Next ==
    \/ \E q \in Texts : ProcessQuery(q)
    \/ CheckCacheGet
    \/ CheckCacheEmbed
    \/ CheckCacheSet
    \/ CheckCacheQuery
    \/ Retrieve
    \/ Generate
    \/ Submit
    \/ ReturnResult
    \/ Await
    \/ \E cache_id \in ClearArgs : ClearCache(cache_id)
    \/ ClearCacheId
    \/ ClearCacheList
    \/ ClearCacheDelete
    \/ \E i \in 1..Len(thread_pool) : TaskStart(i)
    \/ \E i \in 1..Len(thread_pool) : TaskGet(i)
    \/ \E i \in 1..Len(thread_pool) : TaskEmbed(i)
    \/ \E i \in 1..Len(thread_pool) : TaskSet(i)
    \/ \E i \in 1..Len(thread_pool) : TaskAdd(i)

Spec == Init /\ [][Next]_vars

\* the worker threads of the pool keep running: a work item that can take a
\* step takes it
FairSpec == Spec /\ WF_vars(WorkerStep)

(***************************************************************************)
(* The claims.                                                             *)
(***************************************************************************)

\* C1: an EmbeddingCache of max size N never holds more than N entries, a set
\* that finds the table full evicts exactly one entry, and once the table
\* holds N entries its size is N again after every set, a set of a key that
\* is already present included.
C1_BoundedSize ==
    /\ [](Len(embedding_cache) <= max_size)
    /\ [][\A t \in Callers :
            /\ (callers[t].pc = "set_test" /\ callers'[t].pc = "set_assign"
                    /\ callers'[t].full)
                  => Len(embedding_cache') = Len(embedding_cache) - 1
            /\ (callers[t].pc = "set_assign" /\ callers'[t].pc = "unlock"
                    /\ callers[t].full)
                  => Len(embedding_cache') = max_size]_vars

\* the ways the try-body of check_cache fails
CheckCacheFailures == {"embed_failed", "store_failed", "malformed"}

C3_QueryStep == main.pc = "cc_query" /\ main'.pc # "cc_query"

\* C3 (as claimed): check_cache returns the payload of the nearest entry if and
\* only if the store returns a candidate at a distance at or below the
\* threshold; with an empty corpus it returns None without raising.
C3_ThresholdIff ==
    [][C3_QueryStep =>
        /\ (main'.result # None)
              <=> (\E c \in Nearest(cache_collection, main.embedding) :
                      /\ main'.cand = c.id
                      /\ Distance(c.embedding, main.embedding) <= Threshold)
        /\ (main'.result # None)
              => (\E c \in Nearest(cache_collection, main.embedding) :
                      /\ main'.cand = c.id
                      /\ main'.result = DecodePayload(c.metadata))
        /\ cache_collection = {}
              => (main'.result = None /\ main'.outcome = "running")]_vars

\* C3 (amended): check_cache returns the payload of the nearest entry if and
\* only if the store returns a candidate at a distance at or below the
\* threshold whose stored payload decodes; with an empty corpus it returns
\* None without raising.
C3_ThresholdIffDecodes ==
    [][C3_QueryStep =>
        /\ (main'.result # None)
              <=> (\E c \in Nearest(cache_collection, main.embedding) :
                      /\ main'.cand = c.id
                      /\ Distance(c.embedding, main.embedding) <= Threshold
                      /\ PayloadDecodes(c.metadata))
        /\ (main'.result # None)
              => (\E c \in Nearest(cache_collection, main.embedding) :
                      /\ main'.cand = c.id
                      /\ main'.result = DecodePayload(c.metadata))
        /\ cache_collection = {}
              => (main'.result = None /\ main'.outcome = "running")]_vars

C3_Witness == main.cc = "hit" /\ main.dist = Threshold

\* C4: when the try-body of check_cache fails (embedding retries exhausted,
\* store query failed, stored payload malformed) check_cache returns None and
\* process_query goes on to RETRIEVE as on a miss, with no failure raised.
C4_LookupFailureIsMiss ==
    [][(main.pc \in {"cc_embed", "cc_query"} /\ main'.cc \in CheckCacheFailures)
        => /\ main'.pc = "retrieve"
           /\ main'.result = None
           /\ main'.outcome = "running"
           /\ main'.error = "none"
           /\ [main' EXCEPT !.cc = "miss"] = [main EXCEPT !.pc = "retrieve", !.cc = "miss",
                                                !.cand = main'.cand, !.dist = main'.dist]]_vars

C4_Witness ==
    /\ main.cc = "malformed"
    /\ main.outcome = "answered"
    /\ main.kbCalls = 1
    /\ main.genCalls = 1

\* C5: on a miss process_query returns without waiting for its background
\* task: its return is enabled whatever the state of the work item.
C5_NonBlockingWrite ==
    /\ main.pc = "submit" => ENABLED Submit
    /\ (main.pc = "return" /\ main.submits = 1) => ENABLED ReturnResult

\* process_query has returned and its work item is still queued or running
C5_Witness ==
    /\ main.pc = "done"
    /\ main.outcome = "answered"
    /\ thread_pool[Len(thread_pool)].st \in {"queued", "get", "embed", "set", "add"}

\* C6: a work item that fails (embedding resolution or insert) changes no
\* other work item and removes none from the queue; it fails only by a
\* failure of its own call; and every submitted work item is run to its end,
\* a work item that ends without failure having inserted its entry.
C6_FailureIsolation ==
    /\ [][\A i \in 1..Len(thread_pool) :
            /\ (thread_pool[i].st # "failed" /\ thread_pool'[i].st = "failed")
                  => /\ Len(thread_pool') = Len(thread_pool)
                     /\ \A j \in 1..Len(thread_pool) :
                           j # i => thread_pool'[j] = thread_pool[j]
                     /\ faults' = faults + 1
                     /\ cache_collection' = cache_collection
            /\ (thread_pool[i].st # "done" /\ thread_pool'[i].st = "done")
                  => (\E c \in cache_collection' \ cache_collection :
                         c.id = Uuid4(i) /\ c.document = thread_pool[i].query)]_vars
    /\ []<>(\A i \in 1..Len(thread_pool) : thread_pool[i].st \in {"done", "failed"})

\* one work item has failed and another has inserted its entry
C6_Witness ==
    \E i, j \in 1..Len(thread_pool) :
        /\ thread_pool[i].st = "failed"
        /\ thread_pool[j].st = "done"
        /\ \E c \in cache_collection : c.id = Uuid4(j)

\* C7: when the knowledge-base search returns no documents, process_query
\* ends in a failure, without a call of the generation provider and without
\* a work item; past RETRIEVE there is always a document.
C7_NoContextFailure ==
    /\ main.error = "no_documents"
          => /\ main.pc = "done"
             /\ main.outcome = "failed"
             /\ main.genCalls = 0
             /\ main.submits = 0
    /\ (main.pc \in {"generate", "submit", "return"} \/ main.genCalls > 0
            \/ main.submits > 0)
          => (main.kb.documents # <<>> /\ main.kb.documents[1] # <<>>)

C7_Witness ==
    /\ main.error = "no_documents"
    /\ main.cc \in {"miss", "no_candidate"}
    /\ main.kbCalls = 1

\* C8 (as claimed): the embedding provider is called successfully at most
\* once for a text, by whichever resolutions on the read path and in the
\* background tasks.
C8_AtMostOneCall ==
    [][/\ (main.pc = "cc_embed" /\ main'.pc = "cc_set") => main.query \notin embedded
       /\ \A i \in 1..Len(thread_pool) :
             (thread_pool[i].st = "embed" /\ thread_pool'[i].st = "set")
                => thread_pool[i].query \notin embedded]_vars

\* C8 (amended): a resolution stores its vector under the text's fingerprint,
\* and a resolution that finds the fingerprint in the EmbeddingCache (an
\* earlier resolution of the text completed and its entry was not evicted
\* since) takes the provider's vector from the cache and calls no provider.
C8_ReuseWhilePresent ==
    /\ [](\A t \in Texts : \A k \in 1..Len(embedding_cache) :
            embedding_cache[k].key = md5(t)
               => (t \in embedded /\ embedding_cache[k].value = Embedding(t)))
    /\ [][/\ (main.pc = "cc_get" /\ main'.pc # "cc_get"
                 /\ md5(main.query) \in Keys(embedding_cache))
              => /\ main'.pc = "cc_query"
                 /\ main'.embedding = Embedding(main.query)
                 /\ embedded' = embedded
          /\ (main.pc = "cc_set" /\ main'.pc # "cc_set")
              => md5(main.query) \in Keys(embedding_cache')
          /\ \A i \in 1..Len(thread_pool) :
               /\ (thread_pool[i].st = "get" /\ thread_pool'[i].st # "get"
                      /\ md5(thread_pool[i].query) \in Keys(embedding_cache))
                    => /\ thread_pool'[i].st = "add"
                       /\ thread_pool'[i].embedding = Embedding(thread_pool[i].query)
                       /\ embedded' = embedded
               /\ (thread_pool[i].st = "set" /\ thread_pool'[i].st # "set")
                    => md5(thread_pool[i].query) \in Keys(embedding_cache')]_vars

\* a background task is served the vector its read path put in the cache
C8_Witness ==
    \E i \in 1..Len(thread_pool) :
        /\ thread_pool[i].st = "add"
        /\ thread_pool[i].src = "cache"
        /\ thread_pool[i].query \in embedded

\* C9: a hit ends process_query: the answer returned is the decoded payload of
\* the candidate, and for that query there is no knowledge-base query, no
\* call of the generation provider and no work item.
C9_CacheHitTerminal ==
    main.cc = "hit"
    => /\ main.pc = "done"
       /\ main.outcome = "hit"
       /\ main.kbCalls = 0
       /\ main.genCalls = 0
       /\ main.submits = 0
       /\ \E c \in cache_collection :
             c.id = main.cand /\ main.result = DecodePayload(c.metadata)

C9_Witness ==
    /\ main.cc = "hit"
    /\ main.pc = "done"
    /\ main.submits = 0
    /\ main.result.response \in Answers

\* C10: a failure in RETRIEVE or GENERATE ends process_query in one failure
\* with nothing submitted and no answer; no stage is called more than once
\* for a query.
C10_FailureWrapped ==
    /\ main.kbCalls <= 1
    /\ main.genCalls <= 1
    /\ main.outcome = "failed"
          => /\ main.pc = "done"
             /\ main.error \in {"retrieve_failed", "no_documents", "generate_failed"}
             /\ main.submits = 0
             /\ main.result = None
    /\ main.error # "none" => main.outcome = "failed"

C10_Witness ==
    /\ main.outcome = "failed"
    /\ main.error = "generate_failed"
    /\ main.kbCalls = 1
    /\ main.genCalls = 1

\* C11: a failure inside cache_response_background (embedding resolution or
\* insert) ends that work item and nothing else: the caller's coroutine is
\* left as it was, with its answer and without an error; the work item is not
\* run again and nothing is submitted in its place; and no entry of that work
\* item is in the response corpus.
C11_WriteFailureAbsorbed ==
    /\ [](\A i \in 1..Len(thread_pool) :
            thread_pool[i].st = "failed"
               => /\ thread_pool[i].cause \in {"embed_failed", "add_failed"}
                  /\ ~\E c \in cache_collection : c.id = Uuid4(i))
    /\ [](main.outcome = "answered"
            => (main.result # None /\ main.error = "none"))
    /\ [][/\ (faults' > faults /\ main' = main)
              => \E i \in 1..Len(thread_pool) :
                    /\ thread_pool[i].st \in {"embed", "add"}
                    /\ thread_pool'[i].st = "failed"
          /\ \A i \in 1..Len(thread_pool) :
               /\ (thread_pool[i].st # "failed" /\ thread_pool'[i].st = "failed")
                    => /\ main' = main
                       /\ cache_collection' = cache_collection
                       /\ Len(thread_pool') = Len(thread_pool)
               /\ thread_pool[i].st = "failed" => thread_pool'[i] = thread_pool[i]]_vars

\* the caller has its answer and the work item of that answer failed to insert
C11_Witness ==
    /\ main.pc = "done"
    /\ main.outcome = "answered"
    /\ main.result # None
    /\ thread_pool[Len(thread_pool)].st = "failed"
    /\ thread_pool[Len(thread_pool)].cause = "add_failed"
    /\ Persisted(cache_collection, main.query) = {}

\* C12: a work item of the running process_query is in the pool only once
\* that process_query has handed its answer back: the submit comes after the
\* return.
C12_AnswerBeforeSubmit ==
    main.submits > 0 => main.outcome = "answered"

\* C13: the EmbeddingCache is an LRU cache: the entry a set evicts from a full
\* table is the least recently used one, a get and a set of a key both being
\* a use of it.
C13_EvictsLeastRecentlyUsed ==
    [][\A t \in Callers :
          (callers[t].pc = "set_test" /\ callers'[t].pc = "set_assign"
                /\ callers'[t].full)
             => Keys(embedding_cache) \ Keys(embedding_cache') = {used[1]}]_vars

\* the keys of the table in the order the dict holds them
KeyOrder(cache) == [i \in 1..Len(cache) |-> cache[i].key]

C15_GeneratedIsSubmitted ==
    /\ main.submits <= 1
    /\ main.pc = "submit"
          => /\ main.genCalls = 1
             /\ main.result # None
             /\ main.submits = 0
             /\ ENABLED Submit
    /\ (main.pc = "return" \/ main.outcome = "answered")
          => /\ main.submits = 1
             /\ main.genCalls = 1
             /\ LET w == thread_pool[Len(thread_pool)] IN
                  \/ w.st \in {"done", "failed"}
                  \/ (w.query = main.query /\ w.response = main.result)
    /\ main.submits = 1 => (main.genCalls = 1 /\ main.result # None)

\* the answer has been returned and its work item waits in the pool
C15_Witness ==
    /\ main.outcome = "answered"
    /\ main.submits = 1
    /\ thread_pool[Len(thread_pool)].st = "queued"
    /\ thread_pool[Len(thread_pool)].query = main.query
    /\ thread_pool[Len(thread_pool)].response = main.result
    /\ main.result.response \in Answers

\* C16: one get_embedding invocation calls the provider at most 6 times; it
\* returns the vector of the first attempt that succeeds, with no call after
\* it; after the 6th failure in a row it ends in a failure; and it ends
\* whenever every provider call ends.
C16_RetryBounded ==
    /\ [](/\ retry.calls <= MaxAttempts
          /\ retry.attempt <= MaxAttempts
          /\ retry.pc = "returned"
                => (retry.value = Embedding(retry.text) /\ retry.calls = retry.attempt)
          /\ retry.pc = "raised"
                => (retry.calls = MaxAttempts /\ retry.value = NoEmbedding)
          /\ retry.pc \in {"returned", "raised"}
                => LET r == GetEmbedding(retry.text,
                                         IF retry.pc = "raised" THEN MaxAttempts
                                         ELSE retry.calls - 1) IN
                     /\ r.ok = (retry.pc = "returned")
                     /\ r.value = retry.value
                     /\ r.calls = retry.calls)
    /\ [][/\ retry'.calls > retry.calls => retry.pc = "call"
          /\ retry.pc \in {"returned", "raised"} => retry'.pc = "idle"]_vars
    /\ (retry.pc = "call") ~> (retry.pc \in {"returned", "raised"})

\* the 6th attempt has failed and the invocation has ended in a failure
C16_Witness ==
    /\ retry.pc = "raised"
    /\ retry.attempt = MaxAttempts
    /\ retry.calls = MaxAttempts

\* C17: a work item that waits in the queue is started in the end, even when
\* the store insert or the embedding call of the running work items never
\* returns: each running work item is ended by a timeout of its own.
C17_QueuedTaskStarts ==
    \A i \in 1..MaxTasks :
        (Len(thread_pool) >= i /\ thread_pool[i].st = "queued")
            ~> (Len(thread_pool) >= i /\ thread_pool[i].st # "queued")

\* the threads inside the body of a get or of a set
InBody == {t \in Callers : callers[t].pc \in {"get_body", "set_test", "set_assign", "unlock"}}

\* C18: at most one thread is inside the body of a get or a set, and it is
\* the holder of the lock; while a set is between its eviction and its insert
\* no other thread reads or changes the table; and a thread that is in a call
\* of the embedding provider or of the response store does not hold the lock.
C18_GetSetAtomic ==
    /\ Cardinality(InBody) <= 1
    /\ \A t \in InBody : lock = t
    /\ InBody = {} => lock = Free
    /\ \A t \in Callers :
          /\ callers[t].pc = "set_assign"
                => \A u \in Callers \ {t} :
                      callers[u].pc \in {"out", "external", "get_lock", "set_lock"}
          /\ callers[t].pc = "external" => lock # t

\* a set has evicted and not yet inserted, while the other thread waits for
\* the lock to read the table
C18_Witness ==
    \E t, u \in Callers :
        /\ callers[t].pc = "set_assign"
        /\ callers[t].full
        /\ callers[u].pc = "get_lock"
        /\ lock = t

\* the persisted form of r decodes, and decodes to r
RoundTrips(r) == PayloadDecodes(Payload(r)) /\ DecodePayload(Payload(r)) = r

\* C19: every answer process_query builds is, field for field, what
\* check_cache reconstructs from the entry cache_response_background writes
\* for it: the entry a work item inserts decodes to the answer the work item
\* carries, and a hit returns the decoded payload of the matched entry.
C19_StoreLookupRoundTrip ==
    /\ [](main.pc \in {"submit", "return"} => RoundTrips(main.result))
    /\ [][\A i \in 1..Len(thread_pool) :
            (thread_pool[i].st = "add" /\ thread_pool'[i].st = "done")
               => \E c \in cache_collection' \ cache_collection :
                     /\ c.id = Uuid4(i)
                     /\ c.metadata = Payload(thread_pool[i].response)
                     /\ PayloadDecodes(c.metadata)
                     /\ DecodePayload(c.metadata) = thread_pool[i].response]_vars
    /\ [](main.cc = "hit"
            => \E c \in cache_collection :
                  c.id = main.cand /\ main.result = DecodePayload(c.metadata))

\* a hit on an entry that a work item of this run has written
C19_Witness ==
    /\ main.cc = "hit"
    /\ main.cand \in 1..MaxQueries
    /\ main.result.response \in Answers
    /\ main.result.documents = KbDoc1.documents
    /\ main.result.metadata = KbDoc1.metadatas
    /\ main.result.links = Links(KbDoc1.metadatas[1])

\* C20: clear_cache(id) deletes the entry with that id and no other entry;
\* clear_cache() deletes every entry that is in the corpus when it lists
\* them; both leave the EmbeddingCache and the work items as they are, and a
\* delete that fails leaves the corpus as it is.
C20_ClearCacheFrame ==
    [][/\ (main.pc = "clear" /\ main'.pc # "clear" /\ main.cache_id # NoId)
            => /\ main'.pc = "idle"
               /\ cache_collection' \in
                     {cache_collection,
                      {c \in cache_collection : c.id # main.cache_id}}
               /\ faults' = faults
                     => cache_collection'
                          = {c \in cache_collection : c.id # main.cache_id}
       /\ (main.pc = "clear" /\ main'.pc # "clear" /\ main.cache_id = NoId)
            => /\ cache_collection' = cache_collection
               /\ main'.pc = "clear_delete"
                     => main'.ids = {c.id : c \in cache_collection}
               /\ main'.pc = "idle" => (cache_collection = {} \/ faults' > faults)
       /\ (main.pc = "clear_delete" /\ main'.pc # "clear_delete")
            => /\ main.cache_id = NoId
               /\ cache_collection' \in
                     {cache_collection,
                      {c \in cache_collection : c.id \notin main.ids}}
               /\ faults' = faults
                     => cache_collection'
                          = {c \in cache_collection : c.id \notin main.ids}
       /\ (main.pc \in {"clear", "clear_delete"} /\ main' # main)
            => (embedding_cache' = embedding_cache /\ thread_pool' = thread_pool)]_vars

====
